---- MODULE Spec2Model ----
(***************************************************************************)
(* Energy Spent Tracker (energy_tracker.py): the interactive session, its  *)
(* validated-input loops and its CSV persistence.                          *)
(*                                                                         *)
(* Text is a sequence of one-character strings.  A number is a record      *)
(* [isint, neg, m, d] standing for (neg ? -1 : 1) * m / 10^d; a float is   *)
(* kept normalised (d = 0 or m not a multiple of 10), which is what        *)
(* Python's shortest round-trip repr prints.  float() and int() are        *)
(* modelled on plain signed decimal text: exponents, underscores, "inf"    *)
(* and "nan" are outside the alphabets used here, and repr is modelled in  *)
(* its positional form (1e-4 <= |x| < 1e16, which covers every value the   *)
(* bounded inputs can produce).  Products and sums are the exact decimal    *)
(* results, and the reports record the computed figures, before the        *)
(* two-decimal formatting of the print calls.                              *)
(***************************************************************************)
EXTENDS Integers, Sequences, FiniteSets, TLC

VARIABLES
    pc,          \* where main() waits: the prompt it blocks on, or done/crashed
    appliances,  \* main's list of appliance dicts
    file,        \* appliances.csv: its text, or NoFile
    name,        \* main's local `name` between the ADD prompts
    watts,       \* main's local `watts` between the ADD prompts
    choice,      \* 0-based index selected in edit_appliance / option 2
    out,         \* what was printed since the previous input()
    report,      \* the figures printed since the previous input()
    inp,         \* the line the last input() returned
    nreads,      \* times the storage file was opened for reading
    nwrites,     \* times the storage file was opened for writing
    replies,     \* input loops: the replies input() has still to deliver
    asked,       \* input loops: the replies consumed so far
    ret,         \* input loops: the returned value (a sequence of 0 or 1)
    fn,          \* input loops: which helper runs, with its bounds
    given,       \* persistence: the list handed to save
    loaded,      \* persistence: what load returned (a sequence of 0 or 1)
    step         \* persistence: position of the save/load script

sessionVars ==
    <<pc, appliances, file, name, watts, choice, out, report, inp, nreads, nwrites>>
inputVars == <<replies, asked, ret, fn>>
csvVars == <<given, loaded, step>>
vars == <<pc, appliances, file, name, watts, choice, out, report, inp, nreads, nwrites,
          replies, asked, ret, fn, given, loaded, step>>

-----------------------------------------------------------------------------
(* Bounds of the model *)

MaxAppliances == 2
MaxReplies == 3
MaxList == 2

-----------------------------------------------------------------------------
(* Text *)

Digits == <<"0", "1", "2", "3", "4", "5", "6", "7", "8", "9">>

IsDigit(c) == \E i \in 1..10 : Digits[i] = c

DigitVal(c) == (CHOOSE i \in 1..10 : Digits[i] = c) - 1

IsSpace(c) == c \in {" ", "\t", "\r", "\n"}

SetMin(S) == CHOOSE x \in S : \A y \in S : x <= y

SetMax(S) == CHOOSE x \in S : \A y \in S : x >= y

\* str.strip(): leading and trailing whitespace removed
Strip(s) ==
    LET keep == {i \in 1..Len(s) : ~IsSpace(s[i])}
    IN  IF keep = {} THEN <<>> ELSE SubSeq(s, SetMin(keep), SetMax(keep))

\* str.lower() on the letters the confirmation prompt can meet
LowerChar(c) == IF c = "Y" THEN "y" ELSE IF c = "N" THEN "n" ELSE c

Lower(s) == [i \in 1..Len(s) |-> LowerChar(s[i])]

RECURSIVE Pow10(_)
Pow10(d) == IF d = 0 THEN 1 ELSE 10 * Pow10(d - 1)

RECURSIVE NatOf(_)
\* the natural number a string of digits denotes (0 for the empty string)
NatOf(s) ==
    IF s = <<>> THEN 0
    ELSE 10 * NatOf(SubSeq(s, 1, Len(s) - 1)) + DigitVal(s[Len(s)])

RECURSIVE NatStr(_)
\* decimal digits of a natural number
NatStr(n) ==
    IF n < 10 THEN <<Digits[n + 1]>>
    ELSE NatStr(n \div 10) \o <<Digits[(n % 10) + 1]>>

RECURSIVE PadStr(_, _)
\* n written with exactly w digits (leading zeros)
PadStr(n, w) ==
    IF w = 0 THEN <<>> ELSE PadStr(n \div 10, w - 1) \o <<Digits[(n % 10) + 1]>>

-----------------------------------------------------------------------------
(* Numbers *)

RECURSIVE Normalise(_, _, _)
Normalise(neg, m, d) ==
    IF d > 0 /\ m % 10 = 0 THEN Normalise(neg, m \div 10, d - 1)
    ELSE [isint |-> FALSE, neg |-> neg, m |-> m, d |-> d]

MkInt(n) == [isint |-> TRUE, neg |-> n < 0, m |-> IF n < 0 THEN -n ELSE n, d |-> 0]

MkFloat(neg, m, d) == Normalise(neg, m, d)

\* value > 0
Positive(x) == ~x.neg /\ x.m > 0

\* numerical equality (Python ==, what pytest.approx accepts at zero distance)
NumEq(x, y) ==
    /\ x.m * Pow10(y.d) = y.m * Pow10(x.d)
    /\ (x.neg = y.neg \/ x.m = 0)

IntVal(x) == IF x.neg THEN -x.m ELSE x.m

\* the value of a local that holds no number yet
NoNumber == MkInt(0)

ParseError == [ok |-> FALSE, v |-> NoNumber]

\* float(text): surrounding whitespace ignored, an optional sign, digits with
\* at most one point and at least one digit; anything else is a ValueError
ParseFloat(text) ==
    LET s == Strip(text)
        signed == s # <<>> /\ s[1] \in {"+", "-"}
        body == IF signed THEN Tail(s) ELSE s
        points == {i \in 1..Len(body) : body[i] = "."}
        p == IF points = {} THEN Len(body) + 1 ELSE SetMin(points)
        whole == SubSeq(body, 1, p - 1)
        frac == SubSeq(body, p + 1, Len(body))
        wellformed ==
            /\ Cardinality(points) <= 1
            /\ \A i \in 1..Len(body) : IsDigit(body[i]) \/ body[i] = "."
            /\ Len(whole) + Len(frac) >= 1
    IN  IF wellformed
        THEN [ok |-> TRUE,
              v |-> MkFloat(signed /\ s[1] = "-", NatOf(whole \o frac), Len(frac))]
        ELSE ParseError

\* int(text): surrounding whitespace ignored, an optional sign, one or more
\* digits; anything else is a ValueError
ParseInt(text) ==
    LET s == Strip(text)
        signed == s # <<>> /\ s[1] \in {"+", "-"}
        body == IF signed THEN Tail(s) ELSE s
        wellformed == body # <<>> /\ \A i \in 1..Len(body) : IsDigit(body[i])
        n == NatOf(body)
    IN  IF wellformed
        THEN [ok |-> TRUE, v |-> MkInt(IF signed /\ s[1] = "-" THEN -n ELSE n)]
        ELSE ParseError

\* str(x) as csv.writer writes a number: str(int), or repr(float)
NumStr(x) ==
    LET sign == IF x.neg THEN <<"-">> ELSE <<>>
        p == Pow10(x.d)
    IN  IF x.isint THEN sign \o NatStr(x.m)
        ELSE sign \o NatStr(x.m \div p) \o <<".">> \o
             (IF x.d = 0 THEN <<"0">> ELSE PadStr(x.m % p, x.d))

\* x * y on floats (the exact product; the sign of a zero is kept as IEEE does)
Mul(x, y) == MkFloat(x.neg # y.neg, x.m * y.m, x.d + y.d)

\* x / 10^k
DivPow10(x, k) == MkFloat(x.neg, x.m, x.d + k)

\* x + y where y is a float (the exact sum; x may be the int 0 a total starts at)
Plus(x, y) ==
    LET d == IF x.d > y.d THEN x.d ELSE y.d
        sx == (IF x.neg THEN -1 ELSE 1) * x.m * Pow10(d - x.d)
        sy == (IF y.neg THEN -1 ELSE 1) * y.m * Pow10(d - y.d)
        t == sx + sy
    IN  MkFloat(t < 0, IF t < 0 THEN -t ELSE t, d)

-----------------------------------------------------------------------------
(* Appliance records *)

\* add_appliance(name, watts, hours_per_day): the dict main appends.  `rest`
\* lists the keys a dict holds besides the three field names (none here; a
\* dict built by csv.DictReader may hold more).
add_appliance(n, w, h) ==
    [name |-> n, watts |-> w, hours_per_day |-> h, rest |-> <<>>]

\* placeholder where no dict was built
NoAppliance == add_appliance(<<>>, NoNumber, NoNumber)

-----------------------------------------------------------------------------
(* Energy calculator and the two usage reports of main() *)

THIRTY == MkInt(30)

calculate_daily_kwh(w, hours_per_day) == DivPow10(Mul(w, hours_per_day), 3)

calculate_monthly_kwh(daily_kwh) == Mul(daily_kwh, THIRTY)

calculate_cost(kwh, price_per_kwh) == Mul(kwh, price_per_kwh)

\* nothing computed since the previous input()
NoReport ==
    [kind |-> "none", rows |-> <<>>,
     total_monthly_kwh |-> NoNumber, total_cost |-> NoNumber]

\* option '2', lines 300-308: the figures of appliances[choice]
SingleReport(app, price_per_kwh) ==
    LET daily == calculate_daily_kwh(app.watts, app.hours_per_day)
        monthly == calculate_monthly_kwh(daily)
        cost == calculate_cost(monthly, price_per_kwh)
    IN  [kind |-> "single",
         rows |-> <<[name |-> app.name, daily |-> daily,
                     monthly |-> monthly, cost |-> cost]>>,
         total_monthly_kwh |-> NoNumber, total_cost |-> NoNumber]

RECURSIVE TotalLoop_overwrites(_, _, _, _, _)
\* TotalLoop with `total_cost = cost` where the code has `total_cost += cost`
TotalLoop_overwrites(apps, price_per_kwh, rows, total_monthly_kwh, total_cost) ==
    IF apps = <<>>
    THEN [kind |-> "total", rows |-> rows,
          total_monthly_kwh |-> total_monthly_kwh, total_cost |-> total_cost]
    ELSE LET app == Head(apps)
             daily_kwh == calculate_daily_kwh(app.watts, app.hours_per_day)
             monthly_kwh == calculate_monthly_kwh(daily_kwh)
             monthly_hours == Mul(app.hours_per_day, THIRTY)
             cost == calculate_cost(monthly_kwh, price_per_kwh)
         IN  TotalLoop_overwrites(Tail(apps), price_per_kwh,
                 Append(rows, [name |-> app.name, monthly_kwh |-> monthly_kwh,
                               monthly_hours |-> monthly_hours, cost |-> cost]),
                 Plus(total_monthly_kwh, monthly_kwh),
                 cost)

RECURSIVE TotalLoop(_, _, _, _, _)
\* option '3', lines 322-338: the loop over the list, then the totals
TotalLoop(apps, price_per_kwh, rows, total_monthly_kwh, total_cost) ==
    IF apps = <<>>
    THEN [kind |-> "total", rows |-> rows,
          total_monthly_kwh |-> total_monthly_kwh, total_cost |-> total_cost]
    ELSE LET app == Head(apps)
             daily_kwh == calculate_daily_kwh(app.watts, app.hours_per_day)
             monthly_kwh == calculate_monthly_kwh(daily_kwh)
             monthly_hours == Mul(app.hours_per_day, THIRTY)
             cost == calculate_cost(monthly_kwh, price_per_kwh)
         IN  TotalLoop(Tail(apps), price_per_kwh,
                 Append(rows, [name |-> app.name, monthly_kwh |-> monthly_kwh,
                               monthly_hours |-> monthly_hours, cost |-> cost]),
                 Plus(total_monthly_kwh, monthly_kwh),
                 Plus(total_cost, cost))

\* lines 318-319 and the loop
TotalReport(apps, price_per_kwh) ==
    TotalLoop(apps, price_per_kwh, <<>>, MkInt(0), MkInt(0))

-----------------------------------------------------------------------------
(* Persistence: the csv module's writer and reader (dialect excel) *)

NAME == <<"n", "a", "m", "e">>
WATTS == <<"w", "a", "t", "t", "s">>
HOURS == <<"h", "o", "u", "r", "s", "_", "p", "e", "r", "_", "d", "a", "y">>

fieldnames == <<NAME, WATTS, HOURS>>

\* the key csv.DictReader files surplus fields under (restkey=None)
RestKey == <<"None">>

NoFile == <<"ENOENT">>

CRLF == <<"\r", "\n">>

IsNewline(c) == c \in {"\r", "\n"}

\* QUOTE_MINIMAL: a field is quoted when it holds the delimiter, the quote
\* character or a character of the line terminator
NeedsQuote(f) == \E i \in 1..Len(f) : f[i] \in {",", "\"", "\r", "\n"}

RECURSIVE DoubleQuotes(_)
DoubleQuotes(f) ==
    IF f = <<>> THEN <<>>
    ELSE (IF f[1] = "\"" THEN <<"\"", "\"">> ELSE <<f[1]>>) \o DoubleQuotes(Tail(f))

\* WriteField without the quoting
WriteField_unquoted(f) == f

WriteField(f) ==
    IF NeedsQuote(f) THEN <<"\"">> \o DoubleQuotes(f) \o <<"\"">> ELSE f

RECURSIVE JoinFields(_)
JoinFields(fs) ==
    IF fs = <<>> THEN <<>>
    ELSE IF Len(fs) = 1 THEN WriteField(fs[1])
    ELSE WriteField(fs[1]) \o <<",">> \o JoinFields(Tail(fs))

\* csv.writer.writerow
WriteRow(fs) == JoinFields(fs) \o CRLF

\* DictWriter._dict_to_list: the row's fields, in fieldnames order
DictToList(app) == <<app.name, NumStr(app.watts), NumStr(app.hours_per_day)>>

RECURSIVE WriteRows(_, _)
\* the loop of save_appliances_to_csv over the rows still to write, `text`
\* being what the file holds so far; DictWriter raises ValueError on a dict
\* with a key outside fieldnames, and the with-block closes the file as it is
WriteRows(apps, text) ==
    IF apps = <<>> THEN [text |-> text, raised |-> FALSE]
    ELSE IF apps[1].rest # <<>> THEN [text |-> text, raised |-> TRUE]
    ELSE WriteRows(Tail(apps), text \o WriteRow(DictToList(apps[1])))

\* save_appliances_to_csv: open(..., "w") truncates, then header, then rows
save_appliances_to_csv(apps) == WriteRows(apps, WriteRow(fieldnames))

RECURSIVE Scan(_, _, _, _, _, _)
\* csv.reader over the file's characters (opened with newline=""): `st` is
\* the parser state, `fld` the field being read, `rec` the fields of the
\* record being read, `recs` the finished records
Scan(text, i, st, fld, rec, recs) ==
    IF i > Len(text) THEN
        CASE st \in {"START_RECORD", "AFTER_CR"} -> recs
          [] OTHER -> Append(recs, Append(rec, fld))
    ELSE
        LET c == text[i]
            endrec == IF c = "\r" THEN "AFTER_CR" ELSE "START_RECORD"
        IN  CASE st = "AFTER_CR" /\ c = "\n" ->
                    Scan(text, i + 1, "START_RECORD", <<>>, <<>>, recs)
              [] st \in {"START_RECORD", "AFTER_CR"} /\ c # "\n" /\ IsNewline(c) ->
                    Scan(text, i + 1, endrec, <<>>, <<>>, Append(recs, <<>>))
              [] st = "START_RECORD" /\ c = "\n" ->
                    Scan(text, i + 1, endrec, <<>>, <<>>, Append(recs, <<>>))
              [] st \in {"START_RECORD", "AFTER_CR"} /\ ~IsNewline(c) ->
                    Scan(text, i, "START_FIELD", <<>>, <<>>, recs)
              [] st = "START_FIELD" /\ IsNewline(c) ->
                    Scan(text, i + 1, endrec, <<>>, <<>>, Append(recs, Append(rec, <<>>)))
              [] st = "START_FIELD" /\ c = "\"" ->
                    Scan(text, i + 1, "IN_QUOTED_FIELD", <<>>, rec, recs)
              [] st = "START_FIELD" /\ c = "," ->
                    Scan(text, i + 1, "START_FIELD", <<>>, Append(rec, <<>>), recs)
              [] st = "START_FIELD" /\ ~IsNewline(c) /\ c \notin {"\"", ","} ->
                    Scan(text, i + 1, "IN_FIELD", <<c>>, rec, recs)
              [] st = "IN_FIELD" /\ IsNewline(c) ->
                    Scan(text, i + 1, endrec, <<>>, <<>>, Append(recs, Append(rec, fld)))
              [] st = "IN_FIELD" /\ c = "," ->
                    Scan(text, i + 1, "START_FIELD", <<>>, Append(rec, fld), recs)
              [] st = "IN_FIELD" /\ ~IsNewline(c) /\ c # "," ->
                    Scan(text, i + 1, "IN_FIELD", Append(fld, c), rec, recs)
              [] st = "IN_QUOTED_FIELD" /\ c = "\"" ->
                    Scan(text, i + 1, "QUOTE_IN_QUOTED_FIELD", fld, rec, recs)
              [] st = "IN_QUOTED_FIELD" /\ c # "\"" ->
                    Scan(text, i + 1, "IN_QUOTED_FIELD", Append(fld, c), rec, recs)
              [] st = "QUOTE_IN_QUOTED_FIELD" /\ c = "\"" ->
                    Scan(text, i + 1, "IN_QUOTED_FIELD", Append(fld, c), rec, recs)
              [] st = "QUOTE_IN_QUOTED_FIELD" /\ c = "," ->
                    Scan(text, i + 1, "START_FIELD", <<>>, Append(rec, fld), recs)
              [] st = "QUOTE_IN_QUOTED_FIELD" /\ IsNewline(c) ->
                    Scan(text, i + 1, endrec, <<>>, <<>>, Append(recs, Append(rec, fld)))
              [] st = "QUOTE_IN_QUOTED_FIELD" /\ ~IsNewline(c) /\ c \notin {"\"", ","} ->
                    Scan(text, i + 1, "IN_FIELD", Append(fld, c), rec, recs)

\* list(csv.reader(file))
ReadRecords(text) == Scan(text, 1, "START_RECORD", <<>>, <<>>, <<>>)

\* the position csv.DictReader's dict(zip(fieldnames, row)) takes key k from
\* (the last column so named), 0 when the header does not name k
KeyColumn(header, k) ==
    LET cols == {j \in 1..Len(header) : header[j] = k}
    IN  IF cols = {} THEN 0 ELSE SetMax(cols)

\* the keys of a DictReader row besides name, watts and hours_per_day
RestKeys(header, row) ==
    LET other == {j \in 1..Len(header) :
                    /\ header[j] \notin {NAME, WATTS, HOURS}
                    /\ \A k \in 1..(j - 1) : header[k] # header[j]}
        named == [j \in 1..Len(header) |-> header[j]]
        RECURSIVE Pick(_)
        Pick(j) == IF j > Len(header) THEN <<>>
                   ELSE (IF j \in other THEN <<named[j]>> ELSE <<>>) \o Pick(j + 1)
    IN  Pick(1) \o (IF Len(row) > Len(header) THEN <<RestKey>> ELSE <<>>)

\* float(row[k]) on a DictReader row: KeyError when the header does not name
\* k, TypeError when the row is too short (restval None), ValueError when
\* the text is no number
FloatField(header, row, k) ==
    CHOOSE res \in
        {IF c = 0 THEN [raised |-> "KeyError", v |-> NoNumber]
         ELSE IF c > Len(row) THEN [raised |-> "TypeError", v |-> NoNumber]
         ELSE CHOOSE r \in {[raised |-> IF f.ok THEN "" ELSE "ValueError", v |-> f.v]
                            : f \in {ParseFloat(row[c])}} : TRUE
         : c \in {KeyColumn(header, k)}} : TRUE

\* One pass of the loop body of load_appliances_from_csv (lines 153-157) on a
\* DictReader row: the dict appended, or the exception raised.  A header that
\* does not give every row a name is outside the model ("Unmodelled").
LoadRow(header, row) ==
    CHOOSE res \in
        {IF w.raised # "" THEN [raised |-> w.raised, app |-> NoAppliance]
         ELSE IF h.raised # "" THEN [raised |-> h.raised, app |-> NoAppliance]
         ELSE IF cn \notin 1..Len(row) THEN [raised |-> "Unmodelled", app |-> NoAppliance]
         ELSE [raised |-> "",
               app |-> [name |-> row[cn], watts |-> w.v, hours_per_day |-> h.v,
                        rest |-> RestKeys(header, row)]]
         : w \in {FloatField(header, row, WATTS)},
           h \in {FloatField(header, row, HOURS)},
           cn \in {KeyColumn(header, NAME)}} : TRUE

RECURSIVE LoadRows_skips(_, _, _)
\* LoadRows with the conversion wrapped in try/except: continue
LoadRows_skips(header, rows, acc) ==
    IF rows = <<>> THEN [appliances |-> acc, raised |-> ""]
    ELSE IF rows[1] = <<>> THEN LoadRows_skips(header, Tail(rows), acc)
    ELSE CHOOSE res \in
            {IF r.raised # "" THEN LoadRows_skips(header, Tail(rows), acc)
             ELSE LoadRows_skips(header, Tail(rows), Append(acc, r.app))
             : r \in {LoadRow(header, rows[1])}} : TRUE

RECURSIVE LoadRows(_, _, _)
\* the for loop of load_appliances_from_csv; DictReader skips empty records
LoadRows(header, rows, acc) ==
    IF rows = <<>> THEN [appliances |-> acc, raised |-> ""]
    ELSE IF rows[1] = <<>> THEN LoadRows(header, Tail(rows), acc)
    ELSE CHOOSE res \in
            {IF r.raised # "" THEN [appliances |-> <<>>, raised |-> r.raised]
             ELSE LoadRows(header, Tail(rows), Append(acc, r.app))
             : r \in {LoadRow(header, rows[1])}} : TRUE

\* load_appliances_from_csv without its except clause
load_appliances_from_csv_strict(f) ==
    IF f = NoFile THEN [appliances |-> <<>>, raised |-> "FileNotFoundError"]
    ELSE CHOOSE res \in {IF recs = <<>> THEN [appliances |-> <<>>, raised |-> ""]
                         ELSE LoadRows(recs[1], Tail(recs), <<>>)
                         : recs \in {ReadRecords(f)}} : TRUE

\* load_appliances_from_csv: FileNotFoundError gives the empty list; any
\* other exception propagates to the caller
load_appliances_from_csv(f) ==
    IF f = NoFile THEN [appliances |-> <<>>, raised |-> ""]
    ELSE CHOOSE res \in {IF recs = <<>> THEN [appliances |-> <<>>, raised |-> ""]
                         ELSE LoadRows(recs[1], Tail(recs), <<>>)
                         : recs \in {ReadRecords(f)}} : TRUE

-----------------------------------------------------------------------------
(* Validated input: one pass of each helper's while-loop on one reply *)

\* get_positive_float accepting zero (>= for >)
get_positive_float_nonneg(reply) ==
    CHOOSE res \in
        {IF ~r.ok
         THEN [returned |-> FALSE, value |-> r.v,
               msg |-> "Invalid input. Please enter a valid number."]
         ELSE IF ~r.v.neg
         THEN [returned |-> TRUE, value |-> r.v, msg |-> ""]
         ELSE [returned |-> FALSE, value |-> r.v,
               msg |-> "Please enter a positive number."]
         : r \in {ParseFloat(reply)}} : TRUE

\* get_positive_float: the value is returned when float() succeeds and the
\* value is > 0; otherwise a message is printed and the prompt repeats
get_positive_float(reply) ==
    CHOOSE res \in
        {IF ~r.ok
         THEN [returned |-> FALSE, value |-> r.v,
               msg |-> "Invalid input. Please enter a valid number."]
         ELSE IF Positive(r.v)
         THEN [returned |-> TRUE, value |-> r.v, msg |-> ""]
         ELSE [returned |-> FALSE, value |-> r.v,
               msg |-> "Please enter a positive number."]
         : r \in {ParseFloat(reply)}} : TRUE

\* get_int that forgets the upper bound
get_int_nomax(reply, min_value, max_value) ==
    CHOOSE res \in
        {IF ~r.ok
         THEN [returned |-> FALSE, value |-> 0,
               msg |-> "Invalid input. Please enter a number."]
         ELSE IF min_value # <<>> /\ IntVal(r.v) < min_value[1]
         THEN [returned |-> FALSE, value |-> IntVal(r.v),
               msg |-> "Invalid selection. Please try again."]
         ELSE [returned |-> TRUE, value |-> IntVal(r.v), msg |-> ""]
         : r \in {ParseInt(reply)}} : TRUE

\* get_int: min_value and max_value are <<>> for None, <<n>> for n
get_int(reply, min_value, max_value) ==
    CHOOSE res \in
        {IF ~r.ok
         THEN [returned |-> FALSE, value |-> 0,
               msg |-> "Invalid input. Please enter a number."]
         ELSE IF \/ (min_value # <<>> /\ IntVal(r.v) < min_value[1])
                 \/ (max_value # <<>> /\ IntVal(r.v) > max_value[1])
         THEN [returned |-> FALSE, value |-> IntVal(r.v),
               msg |-> "Invalid selection. Please try again."]
         ELSE [returned |-> TRUE, value |-> IntVal(r.v), msg |-> ""]
         : r \in {ParseInt(reply)}} : TRUE

-----------------------------------------------------------------------------
(* What the user may type at each prompt *)

MenuReplies ==
    {<<"1">>, <<"2">>, <<"3">>, <<"4">>, <<"5">>, <<"0">>,
     <<" ", "4", " ">>, <<"9">>, <<>>}

NameReplies == {<<>>, <<" ">>, <<"T", "V">>, <<" ", "a", ",", "b", " ">>}

FloatReplies ==
    {<<"-", "5">>, <<"a", "b", "c">>, <<"3", ".", "5">>, <<"0">>, <<" ", "6", "0">>}

SelectReplies ==
    {NatStr(i) : i \in 0..(MaxAppliances + 1)} \cup
    {<<"a", "b", "c">>, <<"-", "1">>}

OptionReplies ==
    {<<"1">>, <<"2">>, <<"3">>, <<"4">>, <<"0">>, <<"7">>, <<" ", "4">>}

ConfirmReplies ==
    {<<"y">>, <<"Y">>, <<" ", "y", " ">>, <<"n">>, <<"y", "e", "s">>}

\* storage files a run may start from: none, a well-formed row, and rows
\* with an empty name and a negative number, a surplus field, a non-numeric
\* field (alone, and after a well-formed row), a missing field
Header == WriteRow(fieldnames)

StartFiles ==
    {NoFile,
     Header \o <<"T", "V", ",", "6", "0", ",", "3", ".", "5">> \o CRLF,
     Header \o <<",", "-", "5", ",", "3", ".", "5">> \o CRLF,
     Header \o <<"T", "V", ",", "6", "0", ",", "3", ".", "5", ",", "9">> \o CRLF,
     Header \o <<"T", "V", ",", "x", ",", "2">> \o CRLF,
     Header \o <<"T", "V", ",", "6", "0", ",", "3", ".", "5">> \o CRLF
            \o <<"P", "C", ",", "2", ",", "y">> \o CRLF,
     Header \o <<"T", "V", ",", "6", "0">> \o CRLF}

-----------------------------------------------------------------------------
(* The session: main() and edit_appliance(), one action per input() *)

\* list.pop(i) for 0 <= i < len
Pop(list, i) == SubSeq(list, 1, i) \o SubSeq(list, i + 2, Len(list))

InputIdle ==
    /\ replies = <<>> /\ asked = <<>> /\ ret = <<>>
    /\ fn = [kind |-> "none", min_value |-> <<>>, max_value |-> <<>>]

CsvIdle == given = <<>> /\ loaded = <<>> /\ step = "none"

Init ==
    /\ pc = "start"
    /\ appliances = <<>>
    /\ file \in StartFiles
    /\ name = <<>>
    /\ watts = NoNumber
    /\ choice = -1
    /\ out = <<>>
    /\ report = NoReport
    /\ inp = <<>>
    /\ nreads = 0
    /\ nwrites = 0
    /\ InputIdle
    /\ CsvIdle

\* main, line 270: load, then the first show_menu()
Start ==
    /\ pc = "start"
    /\ \E r \in {load_appliances_from_csv(file)} :
           /\ nreads' = nreads + 1
           /\ IF r.raised = ""
              THEN /\ appliances' = r.appliances
                   /\ pc' = "menu"
                   /\ out' = <<"menu">>
              ELSE /\ appliances' = appliances
                   /\ pc' = "crashed"
                   /\ out' = <<r.raised>>
    /\ UNCHANGED <<file, name, watts, choice, inp, nwrites>>
    /\ report' = NoReport
    /\ UNCHANGED <<inputVars, csvVars>>

\* option '1' (lines 275-277): on to the name prompt
MenuAdd ==
    /\ pc = "menu"
    /\ Len(appliances) < MaxAppliances
    /\ \E reply \in MenuReplies :
        /\ Strip(reply) = <<"1">>
        /\ inp' = reply
    /\ pc' = "add_name"
    /\ out' = <<>>
    /\ UNCHANGED <<appliances, file, name, watts, choice, nreads, nwrites>>
    /\ report' = NoReport
    /\ UNCHANGED <<inputVars, csvVars>>

\* AddName asking for the name again after an empty one
AddName_reprompts ==
    /\ pc = "add_name"
    /\ \E reply \in NameReplies :
        /\ inp' = reply
        /\ IF Strip(reply) # <<>>
           THEN /\ name' = Strip(reply)
                /\ pc' = "add_watts"
                /\ out' = <<>>
           ELSE /\ name' = name
                /\ pc' = "add_name"
                /\ out' = <<"Appliance name cannot be empty.">>
    /\ UNCHANGED <<appliances, file, watts, choice, nreads, nwrites>>
    /\ report' = NoReport
    /\ UNCHANGED <<inputVars, csvVars>>

\* lines 277-280
AddName ==
    /\ pc = "add_name"
    /\ \E reply \in NameReplies :
        /\ inp' = reply
        /\ IF Strip(reply) # <<>>
           THEN /\ name' = Strip(reply)
                /\ pc' = "add_watts"
                /\ out' = <<>>
           ELSE /\ name' = name
                /\ pc' = "menu"
                /\ out' = <<"Appliance name cannot be empty.", "menu">>
    /\ UNCHANGED <<appliances, file, watts, choice, nreads, nwrites>>
    /\ report' = NoReport
    /\ UNCHANGED <<inputVars, csvVars>>

\* line 282
AddWatts ==
    /\ pc = "add_watts"
    /\ \E reply \in FloatReplies :
        \E r \in {get_positive_float(reply)} :
            /\ inp' = reply
            /\ IF r.returned
               THEN /\ watts' = r.value
                    /\ pc' = "add_hours"
                    /\ out' = <<>>
               ELSE /\ watts' = watts
                    /\ pc' = pc
                    /\ out' = <<r.msg>>
    /\ UNCHANGED <<appliances, file, name, choice, nreads, nwrites>>
    /\ report' = NoReport
    /\ UNCHANGED <<inputVars, csvVars>>

\* lines 283-285
AddHours ==
    /\ pc = "add_hours"
    /\ \E reply \in FloatReplies :
        \E r \in {get_positive_float(reply)} :
            /\ inp' = reply
            /\ IF r.returned
               THEN /\ appliances' = Append(appliances, add_appliance(name, watts, r.value))
                    /\ name' = <<>>
                    /\ watts' = NoNumber
                    /\ pc' = "menu"
                    /\ out' = <<"added successfully!", "menu">>
               ELSE /\ UNCHANGED <<appliances, name, watts, pc>>
                    /\ out' = <<r.msg>>
    /\ UNCHANGED <<file, choice, nreads, nwrites>>
    /\ report' = NoReport
    /\ UNCHANGED <<inputVars, csvVars>>

\* option '2' (lines 287-294): empty list, or on to the selection prompt
MenuCalcOne ==
    /\ pc = "menu"
    /\ \E reply \in MenuReplies :
        /\ Strip(reply) = <<"2">>
        /\ inp' = reply
    /\ IF appliances = <<>>
       THEN /\ pc' = "menu"
            /\ out' = <<"No appliances added yet.", "menu">>
       ELSE /\ pc' = "calc_select"
            /\ out' = <<"appliance names">>
    /\ UNCHANGED <<appliances, file, name, watts, choice, nreads, nwrites>>
    /\ report' = NoReport
    /\ UNCHANGED <<inputVars, csvVars>>

\* line 296: get_int("Select appliance number: ", 1, len(appliances)) - 1
CalcSelect ==
    /\ pc = "calc_select"
    /\ \E reply \in SelectReplies :
        \E r \in {get_int(reply, <<1>>, <<Len(appliances)>>)} :
            /\ inp' = reply
            /\ IF r.returned
               THEN /\ choice' = r.value - 1
                    /\ pc' = "calc_price"
                    /\ out' = <<>>
               ELSE /\ choice' = choice
                    /\ pc' = pc
                    /\ out' = <<r.msg>>
    /\ UNCHANGED <<appliances, file, name, watts, nreads, nwrites>>
    /\ report' = NoReport
    /\ UNCHANGED <<inputVars, csvVars>>

\* CalcPrice taking the entry with appliances.pop(choice)
CalcPrice_pops ==
    /\ pc = "calc_price"
    /\ \E reply \in FloatReplies :
        \E r \in {get_positive_float(reply)} :
            /\ inp' = reply
            /\ IF ~r.returned
               THEN /\ UNCHANGED <<pc, choice, appliances>>
                    /\ out' = <<r.msg>>
                    /\ report' = NoReport
               ELSE IF choice \in 0..(Len(appliances) - 1)
               THEN /\ pc' = "menu"
                    /\ choice' = -1
                    /\ out' = <<"usage and cost", "menu">>
                    /\ report' = SingleReport(appliances[choice + 1], r.value)
                    /\ appliances' = Pop(appliances, choice)
               ELSE /\ pc' = "crashed"
                    /\ choice' = choice
                    /\ out' = <<"IndexError">>
                    /\ report' = NoReport
                    /\ appliances' = appliances
    /\ UNCHANGED <<file, name, watts, nreads, nwrites>>
    /\ UNCHANGED <<inputVars, csvVars>>

\* lines 298-308: the price, then appliances[choice] is read and reported
CalcPrice ==
    /\ pc = "calc_price"
    /\ \E reply \in FloatReplies :
        \E r \in {get_positive_float(reply)} :
            /\ inp' = reply
            /\ IF ~r.returned
               THEN /\ UNCHANGED <<pc, choice>>
                    /\ out' = <<r.msg>>
                    /\ report' = NoReport
               ELSE IF choice \in 0..(Len(appliances) - 1)
               THEN /\ pc' = "menu"
                    /\ choice' = -1
                    /\ out' = <<"usage and cost", "menu">>
                    /\ report' = SingleReport(appliances[choice + 1], r.value)
               ELSE /\ pc' = "crashed"
                    /\ choice' = choice
                    /\ out' = <<"IndexError">>
                    /\ report' = NoReport
    /\ UNCHANGED <<appliances, file, name, watts, nreads, nwrites>>
    /\ UNCHANGED <<inputVars, csvVars>>

\* option '3' (lines 310-316): empty list, or on to the price prompt
MenuCalcAll ==
    /\ pc = "menu"
    /\ \E reply \in MenuReplies :
        /\ Strip(reply) = <<"3">>
        /\ inp' = reply
    /\ IF appliances = <<>>
       THEN /\ pc' = "menu"
            /\ out' = <<"No appliances added yet.", "menu">>
       ELSE /\ pc' = "total_price"
            /\ out' = <<>>
    /\ UNCHANGED <<appliances, file, name, watts, choice, nreads, nwrites>>
    /\ report' = NoReport
    /\ UNCHANGED <<inputVars, csvVars>>

\* lines 316-338
TotalPrice ==
    /\ pc = "total_price"
    /\ \E reply \in FloatReplies :
        \E r \in {get_positive_float(reply)} :
            /\ inp' = reply
            /\ IF r.returned
               THEN /\ pc' = "menu"
                    /\ out' = <<"individual usage", "total usage and cost", "menu">>
                    /\ report' = TotalReport(appliances, r.value)
               ELSE /\ pc' = pc
                    /\ out' = <<r.msg>>
                    /\ report' = NoReport
    /\ UNCHANGED <<appliances, file, name, watts, choice, nreads, nwrites>>
    /\ UNCHANGED <<inputVars, csvVars>>

\* option '4' (line 342) and edit_appliance, lines 191-201
MenuEdit ==
    /\ pc = "menu"
    /\ \E reply \in MenuReplies :
        /\ Strip(reply) = <<"4">>
        /\ inp' = reply
    /\ IF appliances = <<>>
       THEN /\ pc' = "menu"
            /\ out' = <<"No appliances to edit.", "menu">>
       ELSE /\ pc' = "edit_select"
            /\ out' = <<"Edit Appliances">>
    /\ UNCHANGED <<appliances, file, name, watts, choice, nreads, nwrites>>
    /\ report' = NoReport
    /\ UNCHANGED <<inputVars, csvVars>>

\* EditSelect testing `0 <= choice <= len(appliances)`
EditSelect_offByOne ==
    /\ pc = "edit_select"
    /\ \E reply \in SelectReplies :
        \E r \in {get_int(reply, <<0>>, <<>>)} : \E c \in {r.value - 1} :
            /\ inp' = reply
            /\ IF ~r.returned
               THEN /\ UNCHANGED <<pc, choice>>
                    /\ out' = <<r.msg>>
               ELSE IF c = -1
               THEN /\ pc' = "menu"
                    /\ choice' = -1
                    /\ out' = <<"Returning to main menu.", "menu">>
               ELSE IF 0 <= c /\ c <= Len(appliances)
               THEN /\ pc' = "edit_option"
                    /\ choice' = c
                    /\ out' = <<"Selected appliance">>
               ELSE /\ pc' = "edit_select"
                    /\ choice' = -1
                    /\ out' = <<"Invalid selection.", "Edit Appliances">>
    /\ UNCHANGED <<appliances, file, name, watts, nreads, nwrites>>
    /\ report' = NoReport
    /\ UNCHANGED <<inputVars, csvVars>>

\* EditSelect leaving the loop on an index past the end of the list
EditSelect_leaves ==
    /\ pc = "edit_select"
    /\ \E reply \in SelectReplies :
        \E r \in {get_int(reply, <<0>>, <<>>)} :
            /\ inp' = reply
            /\ IF ~r.returned
               THEN /\ UNCHANGED <<pc, choice>>
                    /\ out' = <<r.msg>>
               ELSE IF 0 <= r.value - 1 /\ r.value - 1 < Len(appliances)
               THEN /\ pc' = "edit_option"
                    /\ choice' = r.value - 1
                    /\ out' = <<"Selected appliance">>
               ELSE /\ pc' = "menu"
                    /\ choice' = -1
                    /\ out' = <<"Returning to main menu.", "menu">>
    /\ UNCHANGED <<appliances, file, name, watts, nreads, nwrites>>
    /\ report' = NoReport
    /\ UNCHANGED <<inputVars, csvVars>>

\* edit_appliance, lines 201-217 and 246-247
EditSelect ==
    /\ pc = "edit_select"
    /\ \E reply \in SelectReplies :
        \E r \in {get_int(reply, <<0>>, <<>>)} : \E c \in {r.value - 1} :
            /\ inp' = reply
            /\ IF ~r.returned
               THEN /\ UNCHANGED <<pc, choice>>
                    /\ out' = <<r.msg>>
               ELSE IF c = -1
               THEN /\ pc' = "menu"
                    /\ choice' = -1
                    /\ out' = <<"Returning to main menu.", "menu">>
               ELSE IF 0 <= c /\ c < Len(appliances)
               THEN /\ pc' = "edit_option"
                    /\ choice' = c
                    /\ out' = <<"Selected appliance">>
               ELSE /\ pc' = "edit_select"
                    /\ choice' = -1
                    /\ out' = <<"Invalid selection.", "Edit Appliances">>
    /\ UNCHANGED <<appliances, file, name, watts, nreads, nwrites>>
    /\ report' = NoReport
    /\ UNCHANGED <<inputVars, csvVars>>

\* edit_appliance, lines 217-245: the sub-menu's dispatch
EditOption ==
    /\ pc = "edit_option"
    /\ \E reply \in OptionReplies :
        LET sub_option == Strip(reply)
        IN  /\ inp' = reply
            /\ CASE sub_option = <<"1">> ->
                        pc' = "edit_name" /\ out' = <<>> /\ choice' = choice
                 [] sub_option = <<"2">> ->
                        pc' = "edit_watts" /\ out' = <<>> /\ choice' = choice
                 [] sub_option = <<"3">> ->
                        pc' = "edit_hours" /\ out' = <<>> /\ choice' = choice
                 [] sub_option = <<"4">> ->
                        pc' = "edit_confirm" /\ out' = <<>> /\ choice' = choice
                 [] sub_option = <<"0">> ->
                        /\ pc' = "edit_select"
                        /\ out' = <<"Returning to appliance list.", "Edit Appliances">>
                        /\ choice' = -1
                 [] OTHER ->
                        /\ pc' = "edit_select"
                        /\ out' = <<"Invalid option.", "Edit Appliances">>
                        /\ choice' = -1
    /\ UNCHANGED <<appliances, file, name, watts, nreads, nwrites>>
    /\ report' = NoReport
    /\ UNCHANGED <<inputVars, csvVars>>

\* EditName without the emptiness test
EditName_unchecked ==
    /\ pc = "edit_name"
    /\ \E reply \in NameReplies :
        /\ inp' = reply
        /\ appliances' = [appliances EXCEPT ![choice + 1].name = Strip(reply)]
        /\ out' = <<"Name updated successfully!", "Edit Appliances">>
    /\ pc' = "edit_select"
    /\ choice' = -1
    /\ UNCHANGED <<file, name, watts, nreads, nwrites>>
    /\ report' = NoReport
    /\ UNCHANGED <<inputVars, csvVars>>

\* edit_appliance, lines 220-225
EditName ==
    /\ pc = "edit_name"
    /\ \E reply \in NameReplies :
        LET new_name == Strip(reply)
        IN  /\ inp' = reply
            /\ IF new_name # <<>>
               THEN /\ appliances' = [appliances EXCEPT ![choice + 1].name = new_name]
                    /\ out' = <<"Name updated successfully!", "Edit Appliances">>
               ELSE /\ appliances' = appliances
                    /\ out' = <<"Name cannot be empty.", "Edit Appliances">>
    /\ pc' = "edit_select"
    /\ choice' = -1
    /\ UNCHANGED <<file, name, watts, nreads, nwrites>>
    /\ report' = NoReport
    /\ UNCHANGED <<inputVars, csvVars>>

\* EditWatts storing the value under the key of the hours branch
EditWatts_wrongField ==
    /\ pc = "edit_watts"
    /\ \E reply \in FloatReplies :
        \E r \in {get_positive_float(reply)} :
            /\ inp' = reply
            /\ IF r.returned
               THEN /\ appliances' =
                        [appliances EXCEPT ![choice + 1].hours_per_day = r.value]
                    /\ out' = <<"Watts updated successfully!", "Edit Appliances">>
                    /\ pc' = "edit_select"
                    /\ choice' = -1
               ELSE /\ UNCHANGED <<appliances, pc, choice>>
                    /\ out' = <<r.msg>>
    /\ UNCHANGED <<file, name, watts, nreads, nwrites>>
    /\ report' = NoReport
    /\ UNCHANGED <<inputVars, csvVars>>

\* edit_appliance, lines 227-229
EditWatts ==
    /\ pc = "edit_watts"
    /\ \E reply \in FloatReplies :
        \E r \in {get_positive_float(reply)} :
            /\ inp' = reply
            /\ IF r.returned
               THEN /\ appliances' = [appliances EXCEPT ![choice + 1].watts = r.value]
                    /\ out' = <<"Watts updated successfully!", "Edit Appliances">>
                    /\ pc' = "edit_select"
                    /\ choice' = -1
               ELSE /\ UNCHANGED <<appliances, pc, choice>>
                    /\ out' = <<r.msg>>
    /\ UNCHANGED <<file, name, watts, nreads, nwrites>>
    /\ report' = NoReport
    /\ UNCHANGED <<inputVars, csvVars>>

\* edit_appliance, lines 231-233
EditHours ==
    /\ pc = "edit_hours"
    /\ \E reply \in FloatReplies :
        \E r \in {get_positive_float(reply)} :
            /\ inp' = reply
            /\ IF r.returned
               THEN /\ appliances' =
                        [appliances EXCEPT ![choice + 1].hours_per_day = r.value]
                    /\ out' = <<"Hours updated successfully!", "Edit Appliances">>
                    /\ pc' = "edit_select"
                    /\ choice' = -1
               ELSE /\ UNCHANGED <<appliances, pc, choice>>
                    /\ out' = <<r.msg>>
    /\ UNCHANGED <<file, name, watts, nreads, nwrites>>
    /\ report' = NoReport
    /\ UNCHANGED <<inputVars, csvVars>>

\* EditConfirm comparing the reply without lower()
EditConfirm_caseSensitive ==
    /\ pc = "edit_confirm"
    /\ \E reply \in ConfirmReplies :
        /\ inp' = reply
        /\ IF Strip(reply) = <<"y">>
           THEN /\ appliances' = Pop(appliances, choice)
                /\ out' = <<"Appliance deleted successfully!", "Edit Appliances">>
           ELSE /\ appliances' = appliances
                /\ out' = <<"Deletion canceled.", "Edit Appliances">>
    /\ pc' = "edit_select"
    /\ choice' = -1
    /\ UNCHANGED <<file, name, watts, nreads, nwrites>>
    /\ report' = NoReport
    /\ UNCHANGED <<inputVars, csvVars>>

\* edit_appliance, lines 235-240
EditConfirm ==
    /\ pc = "edit_confirm"
    /\ \E reply \in ConfirmReplies :
        LET confirm == Lower(Strip(reply))
        IN  /\ inp' = reply
            /\ IF confirm = <<"y">>
               THEN /\ appliances' = Pop(appliances, choice)
                    /\ out' = <<"Appliance deleted successfully!", "Edit Appliances">>
               ELSE /\ appliances' = appliances
                    /\ out' = <<"Deletion canceled.", "Edit Appliances">>
    /\ pc' = "edit_select"
    /\ choice' = -1
    /\ UNCHANGED <<file, name, watts, nreads, nwrites>>
    /\ report' = NoReport
    /\ UNCHANGED <<inputVars, csvVars>>

\* option '5' (line 346) and view_appliances
MenuView ==
    /\ pc = "menu"
    /\ \E reply \in MenuReplies :
        /\ Strip(reply) = <<"5">>
        /\ inp' = reply
    /\ pc' = "menu"
    /\ out' = IF appliances = <<>>
              THEN <<"No appliances added yet.", "menu">>
              ELSE <<"Registered Appliances", "menu">>
    /\ UNCHANGED <<appliances, file, name, watts, choice, nreads, nwrites>>
    /\ report' = NoReport
    /\ UNCHANGED <<inputVars, csvVars>>

\* option '0' (lines 348-357): leave the loop, save, report
MenuExit ==
    /\ pc = "menu"
    /\ \E reply \in MenuReplies :
        /\ Strip(reply) = <<"0">>
        /\ inp' = reply
    /\ \E w \in {save_appliances_to_csv(appliances)} :
           /\ file' = w.text
           /\ nwrites' = nwrites + 1
           /\ IF w.raised
              THEN /\ pc' = "crashed"
                   /\ out' = <<"Exiting the program. Goodbye!", "ValueError">>
              ELSE /\ pc' = "done"
                   /\ out' = <<"Exiting the program. Goodbye!",
                               "Data saved to appliances.csv.">>
    /\ UNCHANGED <<appliances, name, watts, choice, nreads>>
    /\ report' = NoReport
    /\ UNCHANGED <<inputVars, csvVars>>

\* MenuInvalid falling out of the loop instead of continuing
MenuInvalid_exits ==
    /\ pc = "menu"
    /\ \E reply \in MenuReplies :
        /\ Strip(reply) \notin {<<"0">>, <<"1">>, <<"2">>, <<"3">>, <<"4">>, <<"5">>}
        /\ inp' = reply
    /\ pc' = "done"
    /\ out' = <<"Invalid option. Try again.">>
    /\ UNCHANGED <<appliances, file, name, watts, choice, nreads, nwrites>>
    /\ report' = NoReport
    /\ UNCHANGED <<inputVars, csvVars>>

\* lines 352-353
MenuInvalid ==
    /\ pc = "menu"
    /\ \E reply \in MenuReplies :
        /\ Strip(reply) \notin {<<"0">>, <<"1">>, <<"2">>, <<"3">>, <<"4">>, <<"5">>}
        /\ inp' = reply
    /\ pc' = "menu"
    /\ out' = <<"Invalid option. Try again.", "menu">>
    /\ UNCHANGED <<appliances, file, name, watts, choice, nreads, nwrites>>
    /\ report' = NoReport
    /\ UNCHANGED <<inputVars, csvVars>>

Next ==
    \/ Start
    \/ MenuAdd \/ AddName \/ AddWatts \/ AddHours
    \/ MenuCalcOne \/ CalcSelect \/ CalcPrice
    \/ MenuCalcAll \/ TotalPrice
    \/ MenuEdit \/ EditSelect \/ EditOption
    \/ EditName \/ EditWatts \/ EditHours \/ EditConfirm
    \/ MenuView \/ MenuExit \/ MenuInvalid

Spec == Init /\ [][Next]_vars

-----------------------------------------------------------------------------
(* The input helpers run alone on a scripted sequence of replies, as the   *)
(* tests do with a patched input()                                         *)

LoopReplies ==
    {<<"-", "5">>, <<"a", "b", "c">>, <<"3", ".", "5">>, <<"0">>, <<"5">>,
     <<"1", "1">>, <<" ", "2", " ">>, <<>>}

RECURSIVE SeqsUpTo(_, _)
\* the sequences over S of length at most n
SeqsUpTo(S, n) ==
    IF n = 0 THEN {<<>>}
    ELSE LET shorter == SeqsUpTo(S, n - 1)
         IN  shorter \cup {Append(q, x) : q \in shorter, x \in S}

Helpers ==
    {[kind |-> "float", min_value |-> <<>>, max_value |-> <<>>],
     [kind |-> "int", min_value |-> <<>>, max_value |-> <<>>],
     [kind |-> "int", min_value |-> <<1>>, max_value |-> <<10>>],
     [kind |-> "int", min_value |-> <<0>>, max_value |-> <<>>],
     [kind |-> "int", min_value |-> <<>>, max_value |-> <<2>>]}

SessionIdle ==
    /\ pc = "idle" /\ appliances = <<>> /\ file = NoFile /\ name = <<>>
    /\ watts = NoNumber /\ choice = -1 /\ out = <<>> /\ inp = <<>>
    /\ report = NoReport /\ nreads = 0 /\ nwrites = 0

InitInput ==
    /\ fn \in Helpers
    /\ replies \in SeqsUpTo(LoopReplies, MaxReplies)
    /\ asked = <<>>
    /\ ret = <<>>
    /\ SessionIdle
    /\ CsvIdle

\* get_positive_float, lines 25-33: one pass of the loop
AskFloat ==
    /\ fn.kind = "float"
    /\ ret = <<>>
    /\ replies # <<>>
    /\ \E r \in {get_positive_float(Head(replies))} :
        ret' = IF r.returned THEN <<r.value>> ELSE <<>>
    /\ asked' = Append(asked, Head(replies))
    /\ replies' = Tail(replies)
    /\ UNCHANGED <<fn, sessionVars, csvVars>>

\* get_int, lines 48-56: one pass of the loop
AskInt ==
    /\ fn.kind = "int"
    /\ ret = <<>>
    /\ replies # <<>>
    /\ \E r \in {get_int(Head(replies), fn.min_value, fn.max_value)} :
        ret' = IF r.returned THEN <<MkInt(r.value)>> ELSE <<>>
    /\ asked' = Append(asked, Head(replies))
    /\ replies' = Tail(replies)
    /\ UNCHANGED <<fn, sessionVars, csvVars>>

NextInput == AskFloat \/ AskInt

SpecInput == InitInput /\ [][NextInput]_vars

-----------------------------------------------------------------------------
(* save followed by load, as test_csv_persistence runs them *)

CsvNames == {<<"T", "V">>, <<"a", ",", "b">>, <<"\"", " ">>, <<"x", "\r", "\n", "y">>, <<>>}

CsvWatts == {MkInt(60), MkFloat(FALSE, 35, 1)}

CsvHours == {MkInt(5), MkFloat(FALSE, 25, 2)}

CsvAppliances ==
    {add_appliance(n, w, h) : n \in CsvNames, w \in CsvWatts, h \in CsvHours}

InitCsv ==
    /\ given \in SeqsUpTo(CsvAppliances, MaxList)
    /\ loaded = <<>>
    /\ step = "save"
    /\ pc = "idle" /\ appliances = <<>> /\ name = <<>>
    /\ file \in {NoFile, Header \o <<"o", "l", "d", ",", "1", ",", "1">> \o CRLF}
    /\ watts = NoNumber /\ choice = -1 /\ out = <<>> /\ inp = <<>>
    /\ report = NoReport /\ nreads = 0 /\ nwrites = 0
    /\ InputIdle

\* save_appliances_to_csv(appliances, filename)
Save ==
    /\ step = "save"
    /\ \E w \in {save_appliances_to_csv(given)} :
        /\ file' = w.text
        /\ step' = IF w.raised THEN "raised" ELSE "load"
    /\ nwrites' = nwrites + 1
    /\ UNCHANGED <<given, loaded, inputVars>>
    /\ UNCHANGED <<pc, appliances, name, watts, choice, out, report, inp, nreads>>

\* loaded = load_appliances_from_csv(filename)
Load ==
    /\ step = "load"
    /\ loaded' = <<load_appliances_from_csv(file)>>
    /\ step' = "done"
    /\ nreads' = nreads + 1
    /\ UNCHANGED <<given, inputVars>>
    /\ UNCHANGED <<pc, appliances, file, name, watts, choice, out, report, inp,
                   nwrites>>

NextCsv == Save \/ Load

SpecCsv == InitCsv /\ [][NextCsv]_vars

-----------------------------------------------------------------------------
(* Properties *)

\* two lists hold the same appliances: same length, same names, numerically
\* equal watts and hours_per_day, position by position
SameAppliances(a, b) ==
    /\ Len(a) = Len(b)
    /\ \A i \in 1..Len(a) :
        /\ a[i].name = b[i].name
        /\ NumEq(a[i].watts, b[i].watts)
        /\ NumEq(a[i].hours_per_day, b[i].hours_per_day)

\* C1: every appliance in the in-memory list has a non-empty name, watts > 0
\* and hours_per_day > 0, in every reachable state of a session, whatever
\* rows the storage file held.  (Refuted by the load of a row such as
\* ",-5,3.5": load_appliances_from_csv converts but does not validate.)
C1_AppliancesValid ==
    \A i \in 1..Len(appliances) :
        /\ appliances[i].name # <<>>
        /\ Positive(appliances[i].watts)
        /\ Positive(appliances[i].hours_per_day)

\* C2: at the delete confirmation for index `choice`, a reply other than
\* y / Y (after trimming) leaves the list unchanged; y or Y removes exactly
\* the entry at that index: the list is one shorter and every other entry is
\* the same dict, in the same relative order.
C2_DeleteConfirmed ==
    [][pc = "edit_confirm" =>
        IF Strip(inp') \in {<<"y">>, <<"Y">>}
        THEN /\ Len(appliances') = Len(appliances) - 1
             /\ \A k \in 1..Len(appliances') :
                    appliances'[k] = appliances[IF k <= choice THEN k ELSE k + 1]
        ELSE appliances' = appliances]_vars

C2_Witness ==
    /\ pc = "edit_select"
    /\ Strip(inp) = <<"Y">>
    /\ out = <<"Appliance deleted successfully!", "Edit Appliances">>
    /\ appliances # <<>>

\* C3: at the new-name prompt, an empty or whitespace-only reply leaves the
\* whole list unchanged and prints the error; any other reply sets the
\* selected appliance's name to the trimmed reply.
C3_EditNameEmpty ==
    [][pc = "edit_name" =>
        IF \A i \in 1..Len(inp') : IsSpace(inp'[i])
        THEN /\ appliances' = appliances
             /\ out'[1] = "Name cannot be empty."
        ELSE /\ appliances'[choice + 1].name = Strip(inp')
             /\ appliances'[choice + 1].name # <<>>]_vars

C3_Witness ==
    /\ pc = "edit_select"
    /\ inp = <<" ">>
    /\ out = <<"Name cannot be empty.", "Edit Appliances">>
    /\ appliances # <<>>

\* C4: save then load returns a list of the same length whose entries have,
\* in order, the same names and numerically equal watts and hours_per_day,
\* for any list including the empty one; neither call raises.
C4_RoundTrip ==
    /\ step # "raised"
    /\ step = "done" =>
        /\ loaded[1].raised = ""
        /\ SameAppliances(loaded[1].appliances, given)

C4_Witness ==
    /\ step = "done"
    /\ Len(given) = 2
    /\ given[1].name = <<"a", ",", "b">>
    /\ given[1].watts.isint
    /\ given[2].name = <<"x", "\r", "\n", "y">>
    /\ ~loaded[1].appliances[1].watts.isint

\* C5: the file is read once, at startup, and written at most once, after
\* option 0; what the write leaves in the file is the in-memory list as it
\* stands then, in list order.  (Refuted at the last point: a list holding a
\* dict with a surplus key makes DictWriter raise after the file was
\* truncated.)
C5_ExitSavesList ==
    /\ nwrites <= 1
    /\ pc \notin {"start", "idle"} => nreads = 1
    /\ nwrites = 1 =>
        /\ load_appliances_from_csv(file).raised = ""
        /\ SameAppliances(load_appliances_from_csv(file).appliances, appliances)

\* C6: the first prompt is the menu; from the menu each of 1-5 enters its
\* state (or, on an empty list, reports and stays), every such state goes
\* back only to the menu, unrecognised input stays at the menu with an error
\* and the list unchanged, and the exit is reached only by 0 at the menu and
\* nothing follows it.
AddStates == {"add_name", "add_watts", "add_hours"}
CalcOneStates == {"calc_select", "calc_price"}
CalcAllStates == {"total_price"}
EditStates ==
    {"edit_select", "edit_option", "edit_name", "edit_watts", "edit_hours",
     "edit_confirm"}

C6_Controller ==
    [][/\ pc = "start" => pc' \in {"menu", "crashed"}
       /\ pc = "menu" =>
            CASE Strip(inp') = <<"1">> -> pc' = "add_name"
              [] Strip(inp') = <<"2">> ->
                    pc' = IF appliances = <<>> THEN "menu" ELSE "calc_select"
              [] Strip(inp') = <<"3">> ->
                    pc' = IF appliances = <<>> THEN "menu" ELSE "total_price"
              [] Strip(inp') = <<"4">> ->
                    pc' = IF appliances = <<>> THEN "menu" ELSE "edit_select"
              [] Strip(inp') = <<"5">> ->
                    /\ pc' = "menu"
                    /\ out'[1] \in {"Registered Appliances", "No appliances added yet."}
              [] Strip(inp') = <<"0">> -> pc' \in {"done", "crashed"}
              [] OTHER ->
                    /\ pc' = "menu"
                    /\ out'[1] = "Invalid option. Try again."
                    /\ appliances' = appliances
       /\ pc \in AddStates => pc' \in AddStates \cup {"menu"}
       /\ pc \in CalcOneStates => pc' \in CalcOneStates \cup {"menu"}
       /\ pc \in CalcAllStates => pc' \in CalcAllStates \cup {"menu"}
       /\ pc \in EditStates => pc' \in EditStates \cup {"menu"}
       /\ pc' = "done" => pc = "menu" /\ Strip(inp') = <<"0">>
       /\ pc \notin {"done", "crashed"}]_vars

C6_Witness ==
    /\ pc = "menu"
    /\ inp = <<"9">>
    /\ out = <<"Invalid option. Try again.", "menu">>
    /\ appliances # <<>>

\* what the claims call a valid reply to each helper
ValidFloatReply(t) == ParseFloat(t).ok /\ Positive(ParseFloat(t).v)

ValidIntReply(t, lo, hi) ==
    /\ ParseInt(t).ok
    /\ lo # <<>> => IntVal(ParseInt(t).v) >= lo[1]
    /\ hi # <<>> => IntVal(ParseInt(t).v) <= hi[1]

\* C7: get_positive_float returns the first reply that parses as a number
\* greater than 0: it has returned exactly when such a reply was consumed,
\* every reply before it was rejected, the value is that reply's number,
\* and the value is never <= 0.
C7_PositiveFloat ==
    fn.kind = "float" =>
        /\ ret = <<>> => \A i \in 1..Len(asked) : ~ValidFloatReply(asked[i])
        /\ ret # <<>> =>
            /\ asked # <<>>
            /\ \A i \in 1..(Len(asked) - 1) : ~ValidFloatReply(asked[i])
            /\ ValidFloatReply(asked[Len(asked)])
            /\ ret[1] = ParseFloat(asked[Len(asked)]).v
            /\ Positive(ret[1])

C7_Witness ==
    /\ fn.kind = "float"
    /\ asked = <<<<"-", "5">>, <<"a", "b", "c">>, <<"3", ".", "5">>>>
    /\ ret = <<MkFloat(FALSE, 35, 1)>>

\* C8: get_int returns the first reply that parses as an integer within the
\* supplied bounds: it has returned exactly when such a reply was consumed,
\* every reply before it was rejected, and the value is never outside the
\* bounds.
C8_BoundedInt ==
    fn.kind = "int" =>
        /\ ret = <<>> =>
            \A i \in 1..Len(asked) : ~ValidIntReply(asked[i], fn.min_value, fn.max_value)
        /\ ret # <<>> =>
            /\ asked # <<>>
            /\ \A i \in 1..(Len(asked) - 1) :
                    ~ValidIntReply(asked[i], fn.min_value, fn.max_value)
            /\ ValidIntReply(asked[Len(asked)], fn.min_value, fn.max_value)
            /\ ret[1] = ParseInt(asked[Len(asked)]).v
            /\ fn.min_value # <<>> => IntVal(ret[1]) >= fn.min_value[1]
            /\ fn.max_value # <<>> => IntVal(ret[1]) <= fn.max_value[1]

C8_Witness ==
    /\ fn = [kind |-> "int", min_value |-> <<1>>, max_value |-> <<10>>]
    /\ asked = <<<<"a", "b", "c">>, <<"0">>, <<"5">>>>
    /\ ret = <<MkInt(5)>>

\* C9: started without a storage file, the load raises nothing and the
\* session reaches the menu with an empty list.
C9_MissingFile ==
    [][pc = "start" /\ file = NoFile =>
        /\ pc' = "menu"
        /\ appliances' = <<>>
        /\ out' = <<"menu">>]_vars

C9_Witness ==
    /\ pc = "menu"
    /\ file = NoFile
    /\ nreads = 1
    /\ appliances = <<>>
    /\ inp = <<>>

\* C10: option 4 on an empty list reports and stays at the menu; on a
\* non-empty list the edit list is shown, and from then on every pass of the
\* edit loop ends with the edit list shown again (a reply the input helper
\* rejects repeats the same prompt), the menu being reached only from the
\* selection prompt by index 0.
C10_EditLoop ==
    [][/\ pc = "menu" /\ Strip(inp') = <<"4">> =>
            IF appliances = <<>>
            THEN pc' = "menu" /\ out'[1] = "No appliances to edit."
            ELSE pc' = "edit_select" /\ out' = <<"Edit Appliances">>
       /\ pc \in EditStates =>
            /\ pc' \in EditStates \cup {"menu"}
            /\ pc' = "menu" =>
                /\ pc = "edit_select"
                /\ ParseInt(inp').ok
                /\ IntVal(ParseInt(inp').v) = 0
            /\ pc = "edit_select" /\ ParseInt(inp').ok /\ IntVal(ParseInt(inp').v) = 0
                => pc' = "menu"
            /\ pc' = "edit_select" =>
                \/ out'[Len(out')] = "Edit Appliances"
                \/ /\ pc = "edit_select"
                   /\ ~ParseInt(inp').ok \/ IntVal(ParseInt(inp').v) < 0
            /\ pc' \in EditStates \ {"edit_select"} =>
                \/ pc = "edit_select" /\ pc' = "edit_option"
                \/ pc = "edit_option"
                \/ pc' = pc /\ ~ValidFloatReply(inp')]_vars

C10_Witness ==
    /\ pc = "edit_select"
    /\ appliances = <<>>
    /\ out = <<"Appliance deleted successfully!", "Edit Appliances">>

-----------------------------------------------------------------------------
(* The usage reports, stated on integers: a number x is Units(x, k) units  *)
(* of 10^-k, for any k >= x.d                                              *)

Units(x, k) == (IF x.neg THEN -1 ELSE 1) * x.m * Pow10(k - x.d)

Larger(a, b) == IF a > b THEN a ELSE b

\* c = a * b * n / 10^e
IsProduct(c, a, b, n, e) ==
    LET k == Larger(c.d, a.d + b.d + e)
    IN  Units(c, k) = Units(a, a.d) * Units(b, b.d) * n * Pow10(k - a.d - b.d - e)

RECURSIVE SumUnits(_, _)
SumUnits(xs, k) ==
    IF xs = <<>> THEN 0 ELSE Units(Head(xs), k) + SumUnits(Tail(xs), k)

\* t = xs[1] + ... + xs[n]
IsSum(t, xs) ==
    LET k == SetMax({t.d} \cup {xs[i].d : i \in 1..Len(xs)})
    IN  Units(t, k) = SumUnits(xs, k)

ONE == MkFloat(FALSE, 1, 0)

\* rep is the report of option 3 for the list apps at the given price
IsTotalReport(rep, apps, price) ==
    /\ rep.kind = "total"
    /\ Len(rep.rows) = Len(apps)
    /\ \A i \in 1..Len(apps) :
        /\ rep.rows[i].name = apps[i].name
        /\ IsProduct(rep.rows[i].monthly_kwh, apps[i].watts, apps[i].hours_per_day, 30, 3)
        /\ IsProduct(rep.rows[i].monthly_hours, apps[i].hours_per_day, ONE, 30, 0)
        /\ IsProduct(rep.rows[i].cost, rep.rows[i].monthly_kwh, price, 1, 0)
    /\ IsSum(rep.total_monthly_kwh, [i \in 1..Len(apps) |-> rep.rows[i].monthly_kwh])
    /\ IsSum(rep.total_cost, [i \in 1..Len(apps) |-> rep.rows[i].cost])

\* C11 as stated: whenever option 3 is selected the price is asked for, and
\* the reply accepted as the price yields, for every appliance in list order,
\* monthly kWh = watts * hours_per_day / 1000 * 30, monthly hours =
\* hours_per_day * 30 and cost = monthly kWh * price, with totals equal to the
\* sums of the monthly kWh and of the costs over the whole list.
C11_CalcAllAlways ==
    [][/\ (pc = "menu" /\ Strip(inp') = <<"3">>) => pc' = "total_price"
       /\ (pc = "total_price" /\ ValidFloatReply(inp')) =>
            /\ pc' = "menu"
            /\ IsTotalReport(report', appliances, ParseFloat(inp').v)]_vars

\* C11 amended: option 3 on an empty list prints "No appliances added yet."
\* and returns to the menu without asking for a price and without a report;
\* on a non-empty list the price is asked for by one validated input (asked
\* again only while the reply is rejected, nothing being reported meanwhile),
\* and the accepted price yields the per-appliance figures in list order and
\* the totals as above, the list itself being left as it was.
C11_CalcAll ==
    [][/\ (pc = "menu" /\ Strip(inp') = <<"3">>) =>
            IF appliances = <<>>
            THEN /\ pc' = "menu"
                 /\ out'[1] = "No appliances added yet."
                 /\ report' = NoReport
            ELSE /\ pc' = "total_price"
                 /\ report' = NoReport
       /\ pc' = "total_price" => appliances' # <<>>
       /\ pc = "total_price" =>
            /\ appliances' = appliances
            /\ IF ValidFloatReply(inp')
               THEN /\ pc' = "menu"
                    /\ IsTotalReport(report', appliances, ParseFloat(inp').v)
               ELSE /\ pc' = "total_price"
                    /\ report' = NoReport]_vars

\* a report over two appliances whose figures differ
C11_Witness ==
    /\ pc = "menu"
    /\ report.kind = "total"
    /\ Len(report.rows) = 2
    /\ Len(appliances) = 2
    /\ report.rows[1].cost # report.rows[2].cost
    /\ report.total_cost # report.rows[2].cost

\* t is text with its leading and trailing whitespace removed
IsTrimmed(t, text) ==
    \/ t = <<>> /\ \A i \in 1..Len(text) : IsSpace(text[i])
    \/ \E i \in 1..Len(text) : \E j \in i..Len(text) :
          /\ t = [k \in 1..(j - i + 1) |-> text[i + k - 1]]
          /\ ~IsSpace(text[i]) /\ ~IsSpace(text[j])
          /\ \A k \in 1..Len(text) : (k < i \/ k > j) => IsSpace(text[k])

\* C12: at the name prompt of ADD an empty or whitespace-only reply is
\* reported and sends the session back to the menu at once with the list
\* as it was; a non-empty reply is kept trimmed, the watts and hours prompts
\* leave the list alone until the hours are accepted, and then the list is
\* the old list followed by one appliance holding that trimmed name and the
\* two accepted values.
C12_Add ==
    [][/\ (pc = "menu" /\ Strip(inp') = <<"1">>) =>
            pc' = "add_name" /\ appliances' = appliances
       /\ pc = "add_name" =>
            /\ appliances' = appliances
            /\ IF \A i \in 1..Len(inp') : IsSpace(inp'[i])
               THEN /\ pc' = "menu"
                    /\ out'[1] = "Appliance name cannot be empty."
               ELSE /\ pc' = "add_watts"
                    /\ name' # <<>>
                    /\ IsTrimmed(name', inp')
       /\ pc = "add_watts" =>
            /\ appliances' = appliances
            /\ name' = name
            /\ IF ValidFloatReply(inp')
               THEN pc' = "add_hours" /\ watts' = ParseFloat(inp').v
               ELSE pc' = "add_watts"
       /\ pc = "add_hours" =>
            IF ValidFloatReply(inp')
            THEN /\ pc' = "menu"
                 /\ Len(appliances') = Len(appliances) + 1
                 /\ \A i \in 1..Len(appliances) : appliances'[i] = appliances[i]
                 /\ appliances'[Len(appliances')].name = name
                 /\ appliances'[Len(appliances')].watts = watts
                 /\ appliances'[Len(appliances')].hours_per_day = ParseFloat(inp').v
                 /\ Positive(watts) /\ Positive(ParseFloat(inp').v)
            ELSE /\ pc' = "add_hours"
                 /\ appliances' = appliances
                 /\ name' = name /\ watts' = watts]_vars

\* a second appliance was appended, its name typed with surrounding blanks
C12_Witness ==
    /\ pc = "menu"
    /\ out = <<"added successfully!", "menu">>
    /\ Len(appliances) = 2
    /\ appliances[2].name = <<"a", ",", "b">>
    /\ appliances[1].name = <<"T", "V">>

\* the text is a table under the header name,watts,hours_per_day in which
\* some row holds, in the watts or the hours_per_day column, text that is
\* no number
NonNumericRow(text) ==
    /\ text # NoFile
    /\ \E recs \in {ReadRecords(text)} :
        /\ recs # <<>>
        /\ recs[1] = fieldnames
        /\ \E i \in 2..Len(recs) : \E c \in {2, 3} :
              c <= Len(recs[i]) /\ ~ParseFloat(recs[i][c]).ok

\* C13: while the storage file holds a row with a non-numeric watts or
\* hours_per_day value, the session is either about to load or has ended in
\* the load's ValueError: main's list is empty (no row of the file reached
\* it), the menu was never shown, the file was read at most once and was
\* never opened for writing.
C13_LoadFails ==
    NonNumericRow(file) =>
        /\ pc \in {"start", "crashed"}
        /\ pc = "start" => nreads = 0 /\ out = <<>>
        /\ pc = "crashed" => nreads = 1 /\ out = <<"ValueError">>
        /\ appliances = <<>>
        /\ nwrites = 0

\* the load has failed on the second data row, after a well-formed first one
C13_Witness ==
    /\ pc = "crashed"
    /\ out = <<"ValueError">>
    /\ NonNumericRow(file)
    /\ \E recs \in {ReadRecords(file)} :
          Len(recs) = 3 /\ ParseFloat(recs[2][2]).ok /\ ~ParseFloat(recs[3][3]).ok
    /\ appliances = <<>>
    /\ nwrites = 0

\* where main or edit_appliance holds an index it is about to use
IndexStates ==
    {"calc_price", "edit_option", "edit_name", "edit_watts", "edit_hours",
     "edit_confirm"}

\* b is a with the entry at 0-based position k replaced or removed
TouchesOnly(a, b, k) ==
    \/ /\ Len(b) = Len(a)
       /\ \A i \in 1..Len(a) : i # k + 1 => b[i] = a[i]
    \/ /\ Len(b) = Len(a) - 1
       /\ \A i \in 1..Len(b) : b[i] = IF i <= k THEN a[i] ELSE a[i + 1]

\* C14: wherever an index is held for use it lies in 0..len-1 of the current
\* list, and no run ends in an IndexError.  Option 2 on an empty list returns
\* to the menu; otherwise only a selection in 1..count moves on to the price
\* and the report reads exactly the selected entry.  In EDIT a selection in
\* 1..len of the current list (also a list a delete has just shortened or
\* emptied) is the only way to the sub-menu; a larger one prints "Invalid
\* selection." and changes nothing; and an edit or delete touches only the
\* entry at the held index.
C14_IndexInRange ==
    [][/\ pc \in IndexStates => choice \in 0..(Len(appliances) - 1)
       /\ pc' \in IndexStates => choice' \in 0..(Len(appliances') - 1)
       /\ out' # <<"IndexError">>
       /\ (pc = "menu" /\ Strip(inp') = <<"2">>) =>
            /\ appliances' = appliances
            /\ pc' = IF appliances = <<>> THEN "menu" ELSE "calc_select"
       /\ pc = "calc_select" =>
            /\ appliances' = appliances
            /\ Len(appliances) >= 1
            /\ IF ValidIntReply(inp', <<1>>, <<Len(appliances)>>)
               THEN pc' = "calc_price" /\ choice' = IntVal(ParseInt(inp').v) - 1
               ELSE pc' = "calc_select"
            /\ (ParseInt(inp').ok /\ ~ValidIntReply(inp', <<1>>, <<Len(appliances)>>))
                    => out' = <<"Invalid selection. Please try again.">>
       /\ (pc = "calc_price" /\ ValidFloatReply(inp')) =>
            /\ appliances' = appliances
            /\ report'.kind = "single"
            /\ report'.rows[1].name = appliances[choice + 1].name
            /\ IsProduct(report'.rows[1].daily, appliances[choice + 1].watts,
                         appliances[choice + 1].hours_per_day, 1, 3)
       /\ pc = "edit_select" =>
            /\ appliances' = appliances
            /\ pc' = "edit_option" <=>
                    ValidIntReply(inp', <<1>>, <<Len(appliances)>>)
            /\ pc' = "edit_option" => choice' = IntVal(ParseInt(inp').v) - 1
            /\ (ParseInt(inp').ok /\ IntVal(ParseInt(inp').v) > Len(appliances)) =>
                    /\ pc' = "edit_select"
                    /\ out'[1] = "Invalid selection."
       /\ pc \in {"edit_name", "edit_watts", "edit_hours", "edit_confirm"} =>
            TouchesOnly(appliances, appliances', choice)]_vars

\* a delete has emptied the list and the next selection, 1, is turned down
C14_Witness ==
    /\ pc = "edit_select"
    /\ appliances = <<>>
    /\ inp = <<"1">>
    /\ out = <<"Invalid selection.", "Edit Appliances">>

\* C15: a step taken at the menu on a reply of 2, 3, 5 or anything that is
\* no option, and every step taken at a prompt of options 2 and 3, leaves
\* main's list as it was: same length, same entries in the same order.
C15_ReadOnlyActions ==
    [][(\/ pc \in CalcOneStates \cup CalcAllStates
        \/ /\ pc = "menu"
           /\ Strip(inp') \notin {<<"0">>, <<"1">>, <<"4">>}) =>
            /\ Len(appliances') = Len(appliances)
            /\ \A i \in 1..Len(appliances) :
                /\ appliances'[i].name = appliances[i].name
                /\ appliances'[i].watts = appliances[i].watts
                /\ appliances'[i].hours_per_day = appliances[i].hours_per_day
                /\ appliances'[i].rest = appliances[i].rest
            /\ pc' \in CalcOneStates \cup CalcAllStates \cup {"menu"}]_vars

\* option 2 has reported on one of two appliances, and both are still there
C15_Witness ==
    /\ pc = "menu"
    /\ report.kind = "single"
    /\ Len(appliances) = 2
    /\ report.rows[1].name = appliances[2].name
    /\ appliances[1].name # appliances[2].name

\* b is a except for the named fields of the entry at 0-based position k
SameExcept(a, b, k, changed) ==
    /\ Len(b) = Len(a)
    /\ \A i \in 1..Len(a) :
        /\ (i # k + 1 \/ "name" \notin changed) => b[i].name = a[i].name
        /\ (i # k + 1 \/ "watts" \notin changed) => b[i].watts = a[i].watts
        /\ (i # k + 1 \/ "hours_per_day" \notin changed) =>
                b[i].hours_per_day = a[i].hours_per_day
        /\ b[i].rest = a[i].rest

\* C16: the sub-menu is entered with choice = k - 1 for the selection k, and
\* keeps that index while a field is asked for.  The new-name prompt changes
\* at most the name of entry k - 1 (to the trimmed reply, when not empty),
\* the watts prompt at most its watts and the hours prompt at most its hours
\* (to the accepted value; a rejected reply changes nothing); every other
\* field and entry, the length and the order stay.  The sub-menu step itself
\* (back to list and invalid option included) changes nothing.
C16_EditOneField ==
    [][/\ (pc = "edit_select" /\ pc' = "edit_option") =>
            choice' = IntVal(ParseInt(inp').v) - 1
       /\ pc = "edit_option" =>
            /\ SameExcept(appliances, appliances', choice, {})
            /\ pc' # "edit_select" => choice' = choice
            /\ Strip(inp') \notin {<<"1">>, <<"2">>, <<"3">>, <<"4">>} =>
                    pc' = "edit_select"
       /\ pc = "edit_name" =>
            /\ SameExcept(appliances, appliances', choice, {"name"})
            /\ IF \A i \in 1..Len(inp') : IsSpace(inp'[i])
               THEN appliances' = appliances
               ELSE IsTrimmed(appliances'[choice + 1].name, inp')
       /\ pc = "edit_watts" =>
            /\ SameExcept(appliances, appliances', choice, {"watts"})
            /\ IF ValidFloatReply(inp')
               THEN appliances'[choice + 1].watts = ParseFloat(inp').v
               ELSE appliances' = appliances
       /\ pc = "edit_hours" =>
            /\ SameExcept(appliances, appliances', choice, {"hours_per_day"})
            /\ IF ValidFloatReply(inp')
               THEN appliances'[choice + 1].hours_per_day = ParseFloat(inp').v
               ELSE appliances' = appliances]_vars

\* the watts of the second of two appliances were edited to 3.5
C16_Witness ==
    /\ pc = "edit_select"
    /\ out = <<"Watts updated successfully!", "Edit Appliances">>
    /\ Len(appliances) = 2
    /\ appliances[2].watts = MkFloat(FALSE, 35, 1)
    /\ appliances[2].hours_per_day = MkFloat(FALSE, 60, 0)
    /\ appliances[1].watts = MkFloat(FALSE, 60, 0)
    /\ appliances[1].hours_per_day = MkFloat(FALSE, 35, 1)

====
